---- MODULE Spec2Model ----
(***************************************************************************)
(* Foodex billing: the order store (OrderContext reducer), the totals      *)
(* calculator, the menu catalog and the views that dispatch to the store.  *)
(* Money is kept in integer minor units (cents): 5.99 is 599.              *)
(***************************************************************************)
EXTENDS Integers, Sequences, FiniteSets, TLC

(* ---------------------------- bounds ----------------------------------- *)
MaxItems   == 3    \* longest order sequence built through the order page
MaxAdds    == 3    \* ADD_ITEM actions handed straight to the reducer
MaxRemoves == 2    \* matching REMOVE_ITEM actions handed straight to the reducer
MaxLen   == 3      \* longest item sequence handed to calculateTotals

(* ---------------------------- catalog ---------------------------------- *)
menuItems ==
  << [id |-> 1, name |-> "Burger", price |-> 599, category |-> "Burgers"],
     [id |-> 2, name |-> "Pizza",  price |-> 899, category |-> "Pizza"],
     [id |-> 3, name |-> "Fries",  price |-> 299, category |-> "Sides"],
     [id |-> 4, name |-> "Soda",   price |-> 199, category |-> "Drinks"] >>

Catalog == { menuItems[i] : i \in 1..Len(menuItems) }

\* an item no catalog entry describes; only a direct caller of the reducer
\* can hand it in
OffMenuItem == [id |-> 9, name |-> "Secret", price |-> 1, category |-> "None"]

(* ---------------------------- store ------------------------------------ *)
Fields == {"name", "phone", "address"}

\* the texts a customer field is given in the explored runs
Texts(f) == CASE f = "name"    -> {"", "A"}
              [] f = "phone"   -> {"", "1"}
              [] f = "address" -> {"", "X"}

initialState ==
  [ items          |-> << >>,
    customer       |-> [name |-> "", phone |-> "", address |-> ""],
    discount       |-> 0,
    deliveryCharge |-> 0 ]

\* variant: the payload replaces the record, a field it lacks becomes empty
SpreadCustomer_Replace(customer, payload) ==
  [ name    |-> IF "name"    \in DOMAIN payload THEN payload["name"]    ELSE "",
    phone   |-> IF "phone"   \in DOMAIN payload THEN payload["phone"]   ELSE "",
    address |-> IF "address" \in DOMAIN payload THEN payload["address"] ELSE "" ]

\* { ...state.customer, ...action.payload }
SpreadCustomer(customer, payload) ==
  [ name    |-> IF "name"    \in DOMAIN payload THEN payload["name"]    ELSE customer.name,
    phone   |-> IF "phone"   \in DOMAIN payload THEN payload["phone"]   ELSE customer.phone,
    address |-> IF "address" \in DOMAIN payload THEN payload["address"] ELSE customer.address ]

\* the element of items at position i taken out
RemoveAt(items, i) == SubSeq(items, 1, i - 1) \o SubSeq(items, i + 1, Len(items))

\* variant: only the first matching line item is taken out
FilterItems_FirstOnly(items, id) ==
  LET m == { i \in 1..Len(items) : items[i].id = id } IN
  IF m = {} THEN items ELSE RemoveAt(items, CHOOSE i \in m : \A j \in m : i <= j)

\* variant: items.splice(items.findIndex(...), 1), which takes out the last
\* line item when findIndex answers -1
FilterItems_SpliceIndex(items, id) ==
  LET m == { i \in 1..Len(items) : items[i].id = id } IN
  IF items = << >> THEN items
  ELSE IF m = {} THEN RemoveAt(items, Len(items))
  ELSE RemoveAt(items, CHOOSE i \in m : \A j \in m : i <= j)

\* state.items.filter(item => item.id !== action.id)
FilterItems(items, id) == SelectSeq(items, LAMBDA item : item.id # id)

\* variant: default: return state
orderReducer_SilentDefault(state, action) ==
  CASE action.type = "ADD_ITEM" ->
         [thrown |-> FALSE, state |-> [state EXCEPT !.items = Append(@, action.item)]]
    [] action.type = "REMOVE_ITEM" ->
         [thrown |-> FALSE,
          state  |-> [state EXCEPT !.items = SelectSeq(@, LAMBDA item : item.id # action.id)]]
    [] action.type = "UPDATE_CUSTOMER" ->
         [thrown |-> FALSE,
          state  |-> [state EXCEPT !.customer =
                        [ f \in {"name", "phone", "address"} |->
                            IF f \in DOMAIN action.payload THEN action.payload[f] ELSE @[f] ]]]
    [] OTHER ->
         [thrown |-> FALSE, state |-> state]

\* variant: ADD_ITEM also charges a flat delivery of 1.50
orderReducer_DeliveryOnAdd(state, action) ==
  CASE action.type = "ADD_ITEM" ->
         [thrown |-> FALSE,
          state  |-> [state EXCEPT !.items = Append(@, action.item),
                                   !.deliveryCharge = 150]]
    [] action.type = "REMOVE_ITEM" ->
         [thrown |-> FALSE,
          state  |-> [state EXCEPT !.items = SelectSeq(@, LAMBDA item : item.id # action.id)]]
    [] action.type = "UPDATE_CUSTOMER" ->
         [thrown |-> FALSE,
          state  |-> [state EXCEPT !.customer =
                        [ f \in {"name", "phone", "address"} |->
                            IF f \in DOMAIN action.payload THEN action.payload[f] ELSE @[f] ]]]
    [] OTHER ->
         [thrown |-> TRUE, state |-> state]

\* the reducer: the new state, or thrown = TRUE and no new state
orderReducer(state, action) ==
  CASE action.type = "ADD_ITEM" ->
         [thrown |-> FALSE, state |-> [state EXCEPT !.items = Append(@, action.item)]]
    [] action.type = "REMOVE_ITEM" ->
         [thrown |-> FALSE, state |-> [state EXCEPT !.items = FilterItems(@, action.id)]]
    [] action.type = "UPDATE_CUSTOMER" ->
         [thrown |-> FALSE,
          state  |-> [state EXCEPT !.customer = SpreadCustomer(@, action.payload)]]
    [] OTHER ->
         [thrown |-> TRUE, state |-> state]

(* ---------------------------- calculator ------------------------------- *)
\* items.reduce((sum, item) => sum + item.price, 0): left to right from 0
RECURSIVE reduce(_, _, _)
reduce(items, i, sum) ==
  IF i > Len(items) THEN sum ELSE reduce(items, i + 1, sum + items[i].price)

\* variant: a negative discount is taken as no discount
calculateTotals_ClampDiscount(argv) ==
  LET items          == IF Len(argv) >= 1 THEN argv[1] ELSE << >>
      discount       == IF Len(argv) >= 2 THEN argv[2] ELSE 0
      deliveryCharge == IF Len(argv) >= 3 THEN argv[3] ELSE 0
      subtotal       == reduce(items, 1, 0)
      total          == subtotal - (IF discount < 0 THEN 0 ELSE discount) + deliveryCharge
  IN  [subtotal |-> subtotal, total |-> total]

\* calculateTotals(items = [], discount = 0, deliveryCharge = 0), called with
\* the argument list argv: a parameter the call leaves out takes its default
calculateTotals(argv) ==
  LET items          == IF Len(argv) >= 1 THEN argv[1] ELSE << >>
      discount       == IF Len(argv) >= 2 THEN argv[2] ELSE 0
      deliveryCharge == IF Len(argv) >= 3 THEN argv[3] ELSE 0
      subtotal       == reduce(items, 1, 0)
      total          == subtotal - discount + deliveryCharge
  IN  [subtotal |-> subtotal, total |-> total]

(* ---------------------------- views ------------------------------------ *)
\* amount.toFixed(2) of an amount in cents: sign, whole units, two decimals
toFixed2(cents) ==
  LET abs == IF cents < 0 THEN -cents ELSE cents
  IN  [neg |-> cents < 0, whole |-> abs \div 100, frac |-> abs % 100]

\* what the Receipt component renders from the order state it reads
Receipt(st) ==
  LET t == calculateTotals(<< st.items, st.discount, st.deliveryCharge >>) IN
  [ customer |-> st.customer.name,
    phone    |-> st.customer.phone,
    address  |-> st.customer.address,
    lines    |-> [i \in 1..Len(st.items) |->
                    [name |-> st.items[i].name, price |-> toFixed2(st.items[i].price)]],
    subtotal |-> toFixed2(t.subtotal),
    total    |-> toFixed2(t.total) ]

\* what the OrderSummary component renders; each line's Remove button
\* dispatches REMOVE_ITEM with the line's item id
OrderSummary(st) ==
  LET t == calculateTotals(<< st.items, st.discount, st.deliveryCharge >>) IN
  [ lines    |-> [i \in 1..Len(st.items) |->
                    [name     |-> st.items[i].name,
                     price    |-> toFixed2(st.items[i].price),
                     removeId |-> st.items[i].id]],
    subtotal |-> toFixed2(t.subtotal),
    total    |-> toFixed2(t.total) ]

\* variant: only name carries nonempty()
customerSchema_NameOnly(data) == { f \in {"name"} : Len(data[f]) < 1 }

\* customerSchema: the fields whose nonempty() check fails
customerSchema(data) == { f \in Fields : Len(data[f]) < 1 }

(* ---------------------------- variables -------------------------------- *)
VARIABLES
  state,        \* the OrderState held by useReducer in OrderProvider
  page,         \* the route the document shows: "/" or "/receipt"
  formErrors,   \* CustomerForm: the fields showing an inline error
  thrown,       \* the last dispatch raised "Unhandled action type"
  dispatched,   \* the action the last step handed to the reducer (or NoAction)
  event,        \* the last operation performed on the system
  prev,         \* the order state before the last operation
  applied,      \* the order state after the last mutation the reducer applied
  numAdds,      \* ADD_ITEM actions reduced so far
  numRemoves,   \* REMOVE_ITEM actions reduced so far that matched a line item
  calcArgs,     \* arguments of the calculateTotals call under test
  calcResults   \* results of the calls made with calcArgs, oldest first

vars == << state, page, formErrors, thrown, dispatched, event, prev, applied,
           numAdds, numRemoves, calcArgs, calcResults >>

calcVars  == << calcArgs, calcResults >>
countVars == << numAdds, numRemoves >>

NoAction == [type |-> "none"]
NoArgs   == << >>

InitStore ==
  /\ state = initialState
  /\ page = "/"
  /\ formErrors = {}
  /\ thrown = FALSE
  /\ dispatched = NoAction
  /\ event = [op |-> "load"]
  /\ prev = initialState
  /\ applied = initialState
  /\ numAdds = 0
  /\ numRemoves = 0

Init ==
  /\ InitStore
  /\ calcArgs = NoArgs
  /\ calcResults = << >>

\* dispatch(action): useReducer runs orderReducer on the current state
dispatch(action) ==
  LET r == orderReducer(state, action) IN
  /\ state' = r.state
  /\ thrown' = r.thrown
  /\ dispatched' = action
  /\ prev' = state
  /\ applied' = IF r.thrown THEN applied ELSE r.state

(* --------------- actions handed straight to the reducer ---------------- *)
\* the line items and identifiers a direct caller hands in: two catalog
\* entries, one item of no catalog, and an identifier no item carries
ReducerItems == {menuItems[1], menuItems[2], OffMenuItem}
ReducerIds   == { it.id : it \in ReducerItems } \cup {3}
Payloads     == UNION { { p \in [D -> UNION {Texts(f) : f \in Fields}] :
                            \A f \in D : p[f] \in Texts(f) } : D \in SUBSET Fields }
UnknownTypes == {"CLEAR_ORDER", "SET_DISCOUNT"}

Matches(items, id) == { i \in 1..Len(items) : items[i].id = id }

Reduce(action) ==
  /\ dispatch(action)
  /\ event' = [op |-> "dispatch"]
  /\ UNCHANGED << page, formErrors, calcVars >>

ReduceAdd ==
  \E item \in ReducerItems :
    /\ numAdds < MaxAdds
    /\ Reduce([type |-> "ADD_ITEM", item |-> item])
    /\ numAdds' = numAdds + 1
    /\ UNCHANGED numRemoves

ReduceRemove ==
  \E id \in ReducerIds :
    /\ Matches(state.items, id) # {} => numRemoves < MaxRemoves
    /\ Reduce([type |-> "REMOVE_ITEM", id |-> id])
    /\ numRemoves' = IF Matches(state.items, id) # {} THEN numRemoves + 1 ELSE numRemoves
    /\ UNCHANGED numAdds

ReduceUpdate ==
  \E payload \in Payloads :
    /\ Reduce([type |-> "UPDATE_CUSTOMER", payload |-> payload])
    /\ UNCHANGED countVars

ReduceUnknown ==
  \E t \in UnknownTypes :
    /\ Reduce([type |-> t])
    /\ UNCHANGED countVars

NextReducer == ReduceAdd \/ ReduceRemove \/ ReduceUpdate \/ ReduceUnknown

SpecReducer == Init /\ [][NextReducer]_vars

(* ---------------------- operations of the pages ------------------------ *)
FormData == { d \in [Fields -> UNION {Texts(f) : f \in Fields}] :
                \A f \in Fields : d[f] \in Texts(f) }

\* variant: the card dispatches a copy of its item under a fresh line id
handleAdd_FreshId(i) ==
  /\ dispatch([type |-> "ADD_ITEM",
               item |-> [menuItems[i] EXCEPT !.id = 100 + Len(state.items)]])
  /\ event' = [op |-> "add", card |-> i]

\* MenuItemCard.handleAdd of the card rendered for menuItems[i]
handleAdd(i) ==
  /\ dispatch([type |-> "ADD_ITEM", item |-> menuItems[i]])
  /\ event' = [op |-> "add", card |-> i]

\* HomePage: the Add button of one of the cards of menuItems.map
ClickAdd ==
  \E i \in 1..Len(menuItems) :
    /\ page = "/"
    /\ Len(state.items) < MaxItems
    /\ handleAdd(i)
    /\ UNCHANGED << page, formErrors, countVars, calcVars >>

\* OrderSummary: the Remove button of line i
ClickRemove ==
  \E i \in 1..Len(state.items) :
    /\ page = "/"
    /\ dispatch([type |-> "REMOVE_ITEM", id |-> OrderSummary(state).lines[i].removeId])
    /\ event' = [op |-> "remove", line |-> i]
    /\ UNCHANGED << page, formErrors, countVars, calcVars >>

\* CustomerForm.onSubmit
onSubmit(data) == dispatch([type |-> "UPDATE_CUSTOMER", payload |-> data])

\* CustomerForm: handleSubmit(onSubmit) runs the resolver first and calls
\* onSubmit only when it reports no error
SubmitCustomerForm ==
  \E data \in FormData :
    /\ page = "/"
    /\ formErrors' = customerSchema(data)
    /\ IF customerSchema(data) = {}
         THEN onSubmit(data)
         ELSE /\ dispatched' = NoAction
              /\ prev' = state
              /\ UNCHANGED << state, thrown, applied >>
    /\ event' = [op |-> "submit", data |-> data]
    /\ UNCHANGED << page, countVars, calcVars >>

\* RootLayout: the nav links are plain <a href>, so following one loads the
\* document anew and OrderProvider's useReducer starts from initialState
FollowLink ==
  \E href \in {"/", "/receipt"} :
    /\ page' = href
    /\ state' = initialState
    /\ formErrors' = {}
    /\ thrown' = FALSE
    /\ dispatched' = NoAction
    /\ prev' = state
    /\ event' = [op |-> "navigate", href |-> href]
    /\ UNCHANGED << applied, countVars, calcVars >>

Next == ClickAdd \/ ClickRemove \/ SubmitCustomerForm \/ FollowLink

Spec == Init /\ [][Next]_vars

(* ------------------- calculateTotals on its own ------------------------ *)
MaxCalls == 2      \* calls made with the same arguments

\* line items handed to the calculator: two catalog entries and a 10.00 one
CalcItems == {menuItems[1], menuItems[3],
              [id |-> 7, name |-> "Meal", price |-> 1000, category |-> "Combos"]}
Amounts   == {-200, 0, 150, 200}

RECURSIVE SeqsUpTo(_, _)
SeqsUpTo(S, n) ==
  IF n = 0 THEN {<< >>}
  ELSE LET shorter == SeqsUpTo(S, n - 1)
       IN  shorter \cup { Append(q, x) : q \in shorter, x \in S }

ArgLists ==
  LET I == SeqsUpTo(CalcItems, MaxLen) IN
  {<< >>} \cup { <<i>> : i \in I } \cup { <<i, d>> : i \in I, d \in Amounts }
          \cup { <<i, d, c>> : i \in I, d \in Amounts, c \in Amounts }

InitCalc ==
  /\ InitStore
  /\ calcArgs \in ArgLists
  /\ calcResults = << >>

CallCalculateTotals ==
  /\ Len(calcResults) < MaxCalls
  /\ calcResults' = Append(calcResults, calculateTotals(calcArgs))
  /\ UNCHANGED << state, page, formErrors, thrown, dispatched, event, prev,
                  applied, countVars, calcArgs >>

NextCalc == CallCalculateTotals

SpecCalc == InitCalc /\ [][NextCalc]_vars

(* ======================= properties of the claims ====================== *)
KnownTypes == {"ADD_ITEM", "REMOVE_ITEM", "UPDATE_CUSTOMER"}

\* a is what is left of b after taking some of its elements out
RECURSIVE IsSubseq(_, _)
IsSubseq(a, b) ==
  IF a = << >> THEN TRUE
  ELSE IF b = << >> THEN FALSE
  ELSE IF Head(a) = Head(b) THEN IsSubseq(Tail(a), Tail(b))
  ELSE IsSubseq(a, Tail(b))

\* the line items of items whose id differs from id, in their order, found
\* by position
Survivors(items, id) ==
  LET keep == { j \in 1..Len(items) : items[j].id # id } IN
  [ k \in 1..Cardinality(keep) |->
      items[CHOOSE j \in keep : Cardinality({ m \in keep : m < j }) = k - 1] ]

\* the sum of the unit prices, taken from the last line item backwards
RECURSIVE SumPrices(_)
SumPrices(items) ==
  IF items = << >> THEN 0
  ELSE SumPrices(SubSeq(items, 1, Len(items) - 1)) + items[Len(items)].price

\* the frame every reducer action leaves alone
SameAdjustments == /\ state.discount = prev.discount
                   /\ state.deliveryCharge = prev.deliveryCharge

\* C1: after any sequence of ADD_ITEM and REMOVE_ITEM actions reduced from the
\* empty order, the number of line items is the number of adds minus the
\* number of removes that matched a line item, and the survivors keep the
\* order in which they were added.
C1_LengthIsAddsMinusRemoves ==
  /\ Len(state.items) = numAdds - numRemoves
  /\ dispatched.type = "ADD_ITEM" =>
       IsSubseq(state.items, Append(prev.items, dispatched.item))
  /\ dispatched.type = "REMOVE_ITEM" => IsSubseq(state.items, prev.items)

\* C2: every call of calculateTotals with a line item sequence, a discount and
\* a delivery charge answers the sum of the unit prices as subtotal (0 for no
\* line item) and subtotal - discount + deliveryCharge as total, whatever the
\* signs, and a second call with the same arguments answers the same.
C2_TotalsAreSumAndAdjustments ==
  Len(calcArgs) = 3 =>
    \A k \in 1..Len(calcResults) :
      /\ calcResults[k].subtotal = SumPrices(calcArgs[1])
      /\ calcArgs[1] = << >> => calcResults[k].subtotal = 0
      /\ calcResults[k].total = calcResults[k].subtotal - calcArgs[2] + calcArgs[3]
      /\ calcResults[k] = calcResults[1]

\* C2 witness: the 10.00 item with a negative discount (a surcharge of 2.00)
\* and delivery 1.50, asked twice: subtotal 10.00 and total 13.50 both times.
C2_Witness ==
  /\ Len(calcArgs) = 3
  /\ Len(calcArgs[1]) = 1
  /\ calcArgs[1][1].price = 1000
  /\ calcArgs[2] = -200
  /\ calcArgs[3] = 150
  /\ calcResults = << [subtotal |-> 1000, total |-> 1350],
                      [subtotal |-> 1000, total |-> 1350] >>

\* C3: whenever the receipt page is shown, the receipt it renders (items,
\* customer details, subtotal, total) is that of the order as the last applied
\* mutation left it.
C3_ReceiptShowsOrder ==
  page = "/receipt" => Receipt(state) = Receipt(applied)

\* C4: an action of an unrecognised type makes the reducer raise and leaves
\* the order as it was; the reducer raises for no recognised type; the order
\* held is always the outcome of the last recognised mutation.
C4_UnknownActionRaises ==
  /\ (dispatched # NoAction /\ dispatched.type \notin KnownTypes) =>
       (thrown /\ state = prev)
  /\ thrown => dispatched.type \notin KnownTypes
  /\ state = applied

\* C4 witness: an unrecognised action raised on an order that holds a line
\* item and a customer name.
C4_Witness ==
  /\ dispatched.type = "CLEAR_ORDER"
  /\ thrown
  /\ Len(state.items) >= 1
  /\ state.customer.name = "A"

\* C5: UPDATE_CUSTOMER sets the fields its payload carries, keeps every other
\* customer field, never raises, and leaves items, discount and
\* deliveryCharge alone.
C5_UpdateCustomerMerges ==
  dispatched.type = "UPDATE_CUSTOMER" =>
    /\ ~thrown
    /\ \A f \in Fields :
         state.customer[f] = IF f \in DOMAIN dispatched.payload
                               THEN dispatched.payload[f]
                               ELSE prev.customer[f]
    /\ state.items = prev.items
    /\ SameAdjustments

\* C5 witness: {name: "A", phone: "1", address: ""} updated with
\* {address: "X"} on an order holding a line item.
C5_Witness ==
  /\ dispatched.type = "UPDATE_CUSTOMER"
  /\ DOMAIN dispatched.payload = {"address"}
  /\ dispatched.payload["address"] = "X"
  /\ prev.customer = [name |-> "A", phone |-> "1", address |-> ""]
  /\ state.customer = [name |-> "A", phone |-> "1", address |-> "X"]
  /\ Len(state.items) >= 1

\* C6: an Add click appends one line item billed at the card's full price,
\* also when the order already holds that item, and a Remove click on one
\* line takes out that line only and leaves every other line, a twin of the
\* same item included.
C6_DuplicateLinesIndependent ==
  /\ event.op = "add" =>
       /\ state.items = Append(prev.items, menuItems[event.card])
       /\ calculateTotals(<< state.items >>).subtotal =
            calculateTotals(<< prev.items >>).subtotal + menuItems[event.card].price
  /\ event.op = "remove" => state.items = RemoveAt(prev.items, event.line)

\* C7: REMOVE_ITEM with an identifier no line item carries changes nothing
\* and does not raise.
C7_RemoveAbsentIsNoOp ==
  (dispatched.type = "REMOVE_ITEM" /\ Matches(prev.items, dispatched.id) = {}) =>
    (state = prev /\ ~thrown)

\* C7 witness: an identifier no line item carries, removed from an order of
\* two line items with a customer set.
C7_Witness ==
  /\ dispatched.type = "REMOVE_ITEM"
  /\ Matches(prev.items, dispatched.id) = {}
  /\ Len(prev.items) >= 2
  /\ prev.customer.name = "A"
  /\ state = prev

\* C8: through the order page, every line item has the identifier, name and
\* price of an entry of the menu catalog.
C8_ItemsComeFromCatalog ==
  \A i \in 1..Len(state.items) :
    \E m \in Catalog : /\ state.items[i].id = m.id
                       /\ state.items[i].name = m.name
                       /\ state.items[i].price = m.price

\* C8 witness: an order of two different items and a repeat of one of them.
C8_Witness ==
  /\ Len(state.items) = 3
  /\ state.items[1].id # state.items[2].id
  /\ state.items[3].id = state.items[1].id

\* C9: through the customer form, the customer record is the initial all-empty
\* one or has name, phone and address all non-empty, and a submission with an
\* empty field leaves the order state as it was.
C9_InvalidCustomerNeverStored ==
  /\ \/ state.customer = initialState.customer
     \/ \A f \in Fields : state.customer[f] # ""
  /\ (event.op = "submit" /\ \E f \in Fields : event.data[f] = "") =>
       (state = prev /\ dispatched = NoAction)

\* C9 witness: a submission with an empty phone refused after a complete
\* record was stored.
C9_Witness ==
  /\ event.op = "submit"
  /\ event.data["phone"] = ""
  /\ event.data["name"] = "A"
  /\ formErrors = {"phone"}
  /\ state.customer = [name |-> "A", phone |-> "1", address |-> "X"]

\* C10: REMOVE_ITEM with identifier i leaves exactly the line items whose id
\* differs from i, in their order; none with id i remains; customer, discount
\* and deliveryCharge are unchanged.
C10_RemoveTakesAllMatches ==
  dispatched.type = "REMOVE_ITEM" =>
    /\ state.items = Survivors(prev.items, dispatched.id)
    /\ Matches(state.items, dispatched.id) = {}
    /\ state.customer = prev.customer
    /\ SameAdjustments
    /\ ~thrown

\* C10 witness: the identifier of two line items removed from an order that
\* holds a third, which stays.
C10_Witness ==
  /\ dispatched.type = "REMOVE_ITEM"
  /\ Cardinality(Matches(prev.items, dispatched.id)) = 2
  /\ Len(prev.items) = 3
  /\ Len(state.items) = 1

\* C11: no action the reducer handles changes discount or deliveryCharge:
\* both are 0 in every state reduced from initialState, so the total that
\* OrderSummary shows for the order is its subtotal.
C11_AdjustmentsStayZero ==
  /\ SameAdjustments
  /\ state.discount = 0
  /\ state.deliveryCharge = 0
  /\ calculateTotals(<< state.items, state.discount, state.deliveryCharge >>).total =
       SumPrices(state.items)
  /\ OrderSummary(state).total = OrderSummary(state).subtotal

\* C11 witness: after adds, a customer update and a matching remove, an order
\* that still holds a line item shows a total above 0.
C11_Witness ==
  /\ numAdds >= 2
  /\ numRemoves >= 1
  /\ state.customer.name = "A"
  /\ Len(state.items) >= 1
  /\ OrderSummary(state).total.whole >= 1
  /\ state.discount = 0
  /\ state.deliveryCharge = 0

====
